---- MODULE Spec2Model ----
(***************************************************************************)
(* async-class (src/index.js): wrap, wrapStaticMethods,                    *)
(* wrapInstanceMethods and the helpers they call, as a state machine over  *)
(* one class: its own static properties and its prototype's own            *)
(* properties.                                                             *)
(***************************************************************************)
EXTENDS Integers, Sequences, FiniteSets, TLC

VARIABLES
  klass,     \* the class: [static |-> target, prototype |-> target]
  declared,  \* the class as it was declared (before any wrap call)
  phase,     \* "defined" | "wrapped" | "failed"
  call,      \* the wrap call made: entry point, arguments, conformed options, error
  written,   \* the properties assigned by the call: <<isStatic, key>>
  seen,      \* the callbacks the call invoked, in order, with what each could observe
  run        \* the invocation of a method in progress, if any

vars == <<klass, declared, phase, call, written, seen, run>>

----------------------------------------------------------------------------
(* JavaScript values, as far as conformOptions tells them apart.            *)
(* t: the kind; s: the text of a string, number or boolean, in tokens;      *)
(* a: the elements of an array; fn: which function a callable is.           *)

JS(t, s) == [t |-> t, s |-> s, a |-> <<>>, fn |-> ""]
Undefined == JS("undefined", <<>>)
\* A field the object does not have: reading it gives undefined.
Absent == JS("absent", <<>>)
Null == JS("null", <<>>)
Str(s) == JS("string", s)
Num(s) == JS("number", <<s>>)
Bool(s) == JS("boolean", <<s>>)
Arr(elems) == [t |-> "array", s |-> <<>>, a |-> elems, fn |-> ""]
Fun(name) == [t |-> "function", s |-> <<>>, a |-> <<>>, fn |-> name]
El(t, s) == [t |-> t, s |-> s]

Truthy(v) ==
  CASE v.t \in {"undefined", "absent", "null"} -> FALSE
    [] v.t = "number" -> v.s # <<"0">>
    [] v.t = "string" -> v.s # <<>>
    [] v.t = "boolean" -> v.s = <<"true">>
    [] OTHER -> TRUE

TypeOf(v) ==
  CASE v.t \in {"null", "array", "date", "object"} -> "object"
    [] v.t = "absent" -> "undefined"
    [] OTHER -> v.t

InstanceOfArray(v) == v.t = "array"
InstanceOfDate(v) == v.t = "date"

NoFields ==
  [methodNames |-> Absent, wrapper |-> Absent,
   asyncWrapper |-> Absent, asyncWrapCondition |-> Absent]

\* An argument as passed: a value, with its enumerable fields when an object.
Arg(v) == [t |-> v.t, s |-> v.s, a |-> v.a, fn |-> v.fn, f |-> NoFields]
Obj(fields) == [t |-> "object", s |-> <<>>, a |-> <<>>, fn |-> "", f |-> fields]
Field(arg) == [t |-> arg.t, s |-> arg.s, a |-> arg.a, fn |-> arg.fn]

PromiseCoroutine == Fun("Promise.coroutine")
PromiseMethod == Fun("Promise.method")
DefaultCondition == Fun("asyncWrapCondition")

----------------------------------------------------------------------------
(* Property names are strings, kept as token sequences so that endsWith     *)
(* and startsWith are computed, not looked up.                              *)

endsWith(key, suffix) ==
  /\ Len(key) >= Len(suffix)
  /\ SubSeq(key, Len(key) - Len(suffix) + 1, Len(key)) = suffix

startsWith(key, prefix) ==
  /\ Len(key) >= Len(prefix)
  /\ SubSeq(key, 1, Len(prefix)) = prefix

asyncWrapCondition(key) == endsWith(key, <<"Async">>)

\* Array.prototype.indexOf: strict equality, first match, -1 when absent.
indexOf(list, key) ==
  LET hits == {i \in 1..Len(list) : list[i] = El("string", key)}
  IN IF hits = {} THEN -1 ELSE (CHOOSE i \in hits : \A j \in hits : i <= j) - 1

----------------------------------------------------------------------------
(* Property values and descriptors.                                         *)

Plain(id) == [isFn |-> TRUE, id |-> id, gen |-> FALSE, layers |-> <<>>]
Generator(id) == [isFn |-> TRUE, id |-> id, gen |-> TRUE, layers |-> <<>>]
NotFn(id) == [isFn |-> FALSE, id |-> id, gen |-> FALSE, layers |-> <<>>]

Data(v) == [kind |-> "data", val |-> v, get |-> "", set |-> "", ret |-> NotFn("")]
Accessor(g, s, r) == [kind |-> "accessor", val |-> NotFn(""), get |-> g, set |-> s, ret |-> r]

\* target[key]: a data property's value, or what the getter returns.
Get(target, key) ==
  LET d == target.desc[key]
  IN IF d.kind = "data" THEN d.val
     ELSE IF d.get # "" THEN d.ret ELSE NotFn("undefined")

\* Faulty variant: the function itself is assigned, not the transformer's result.
ApplyTransformerSkipped(f, v) == v

\* The call options.wrapper(fn) / options.asyncWrapper(fn): a new function
\* that is not a GeneratorFunction.
ApplyTransformer(f, v) ==
  [v EXCEPT !.gen = FALSE,
            !.layers = Append(@, CASE f.fn = "Promise.coroutine" -> "coroutine"
                                   [] f.fn = "Promise.method" -> "method"
                                   [] OTHER -> f.fn)]

\* The call options.asyncWrapCondition(key, target, isStatic).
ApplyCondition(f, key, target, isStatic) ==
  CASE f.fn = "asyncWrapCondition" -> asyncWrapCondition(key)
    [] f.fn = "remote" -> startsWith(key, <<"remote">>)
    [] f.fn = "staticOnly" -> isStatic
    [] OTHER -> FALSE

----------------------------------------------------------------------------
(* conformOptions and cloneOptions.                                         *)

Throw(message) == [threw |-> TRUE, message |-> message, options |-> NoFields]
Return(options) == [threw |-> FALSE, message |-> "", options |-> options]

cloneOptions(options) ==
  [key \in DOMAIN options.f |-> options.f[key]]

\* `if (options.x === undefined) options.x = <default>` (faulty variant: any falsy value).
defaultedIfFalsy(value, default) == IF ~Truthy(value) THEN default ELSE value

defaulted(value, default) == IF TypeOf(value) = "undefined" THEN default ELSE value

\* `options.methodNames && !(options.methodNames instanceof Array)` (faulty variant: no check).
methodNamesUnchecked(value) == FALSE

methodNamesInvalid(value) == Truthy(value) /\ ~InstanceOfArray(value)

\* `options.x && typeof options.x != 'function'` (faulty variant: the truthiness test left out).
notCallableStrict(value) == TypeOf(value) # "function"

notCallable(value) == Truthy(value) /\ TypeOf(value) # "function"

conformOptions(methodNames, options) ==
  LET swap == ~Truthy(options) /\ Truthy(methodNames) /\ ~InstanceOfArray(methodNames)
      options1 == IF swap THEN methodNames ELSE options
      methodNames1 == IF swap THEN Arg(Undefined) ELSE methodNames
      options2 == IF ~Truthy(options1) THEN Obj(NoFields) ELSE options1
  IN IF TypeOf(options2) # "object" \/ InstanceOfArray(options2) \/ InstanceOfDate(options2)
       THEN Throw("Optional options should be an object if provided")
     ELSE
       LET o3 == cloneOptions(options2)
           o4 == IF Truthy(methodNames1)
                   THEN [o3 EXCEPT !.methodNames = Field(methodNames1)] ELSE o3
           o5 == [o4 EXCEPT !.wrapper = defaulted(@, PromiseCoroutine)]
           o6 == [o5 EXCEPT !.asyncWrapper = defaulted(@, PromiseMethod)]
           o7 == [o6 EXCEPT !.asyncWrapCondition = defaulted(@, DefaultCondition)]
       IN IF methodNamesInvalid(o4.methodNames)
            THEN Throw("Optional methodNames should be an array if provided")
          ELSE IF notCallable(o5.wrapper)
            THEN Throw("Optional wrapper should be a function if provided")
          ELSE IF notCallable(o6.asyncWrapper)
            THEN Throw("Optional asyncWrapper should be a function if provided")
          ELSE IF notCallable(o7.asyncWrapCondition)
            THEN Throw("Optional asyncWrapCondition should be a function if provided")
          ELSE Return(o7)

----------------------------------------------------------------------------
(* wrapFunctions and _actualMethodKeys.                                     *)

\* Faulty variant: the accessor filter left out (as in the first version, src/unnamed/part_000).
_actualMethodKeysUnfiltered(target) ==
  LET isFunction(key) == Get(target, key).isFn
  IN SelectSeq(target.keys, isFunction)

_actualMethodKeys(target) ==
  LET noAccessor(key) == target.desc[key].get = "" /\ target.desc[key].set = ""
      isFunction(key) == Get(target, key).isFn
  IN SelectSeq(SelectSeq(target.keys, noAccessor), isFunction)

Target(acc, isStatic) == IF isStatic THEN acc.klass.static ELSE acc.klass.prototype

isGeneratorFunction(v) == v.isFn /\ v.gen

\* Whether the forEach callback calls options.asyncWrapCondition for this key.
consults(fn, options) ==
  /\ ~Truthy(options.methodNames)
  /\ ~isGeneratorFunction(fn)
  /\ Truthy(options.asyncWrapCondition)

\* Faulty variant: GeneratorFunctions are held to the naming condition too.
returnsEarlyByNameOnly(key, fn, options, target, isStatic) ==
  IF Truthy(options.methodNames)
    THEN indexOf(options.methodNames.a, key) = -1
    ELSE /\ Truthy(options.asyncWrapCondition)
         /\ ~ApplyCondition(options.asyncWrapCondition, key, target, isStatic)

\* Faulty variant: a listed plain method must still satisfy the naming condition.
returnsEarlyListAndName(key, fn, options, target, isStatic) ==
  \/ Truthy(options.methodNames) /\ indexOf(options.methodNames.a, key) = -1
  \/ /\ ~isGeneratorFunction(fn)
     /\ Truthy(options.asyncWrapCondition)
     /\ ~ApplyCondition(options.asyncWrapCondition, key, target, isStatic)

\* Whether the forEach callback returns before the transformation.
returnsEarly(key, fn, options, target, isStatic) ==
  IF Truthy(options.methodNames)
    THEN indexOf(options.methodNames.a, key) = -1
    ELSE /\ ~isGeneratorFunction(fn)
         /\ Truthy(options.asyncWrapCondition)
         /\ ~ApplyCondition(options.asyncWrapCondition, key, target, isStatic)

\* Faulty variant: the two branches of the dispatch exchanged.
transformerSwapped(fn, options) ==
  IF isGeneratorFunction(fn)
    THEN (IF Truthy(options.asyncWrapper) THEN options.asyncWrapper ELSE Undefined)
    ELSE (IF Truthy(options.wrapper) THEN options.wrapper ELSE Undefined)

\* The transformer the callback applies, or Undefined when it applies none.
transformer(fn, options) ==
  IF isGeneratorFunction(fn)
    THEN (IF Truthy(options.wrapper) THEN options.wrapper ELSE Undefined)
    ELSE (IF Truthy(options.asyncWrapper) THEN options.asyncWrapper ELSE Undefined)

Observe(acc, cb, f, key, isStatic) ==
  [acc EXCEPT !.seen = Append(@, [cb |-> cb, fn |-> f.fn, isStatic |-> isStatic,
                                  key |-> key, replaced |-> acc.written])]

\* target[key] = value, in strict mode.
Put(acc, key, value, isStatic) ==
  LET d == Target(acc, isStatic).desc[key]
      logged == [acc EXCEPT !.written = @ \cup {<<isStatic, key>>}]
  IN IF d.kind = "data"
       THEN IF isStatic
              THEN [logged EXCEPT !.klass.static.desc[key].val = value]
              ELSE [logged EXCEPT !.klass.prototype.desc[key].val = value]
     ELSE IF d.set # "" THEN logged                \* the setter runs
     ELSE [acc EXCEPT !.threw = "TypeError"]       \* no setter: TypeError

\* The callback wrapFunctions hands to forEach.
callback(acc, key, options, isStatic) ==
  LET target == Target(acc, isStatic)
      fn == Get(target, key)
      acc1 == IF consults(fn, options)
                THEN Observe(acc, "asyncWrapCondition", options.asyncWrapCondition, key, isStatic)
                ELSE acc
      f == transformer(fn, options)
  IN IF returnsEarly(key, fn, options, target, isStatic) THEN acc1
     ELSE IF f = Undefined THEN acc1
     ELSE Put(Observe(acc1, IF isGeneratorFunction(fn) THEN "wrapper" ELSE "asyncWrapper",
                      f, key, isStatic),
              key, ApplyTransformer(f, fn), isStatic)

RECURSIVE forEach(_, _, _, _, _)
forEach(keys, i, acc, options, isStatic) ==
  IF i > Len(keys) \/ acc.threw # "" THEN acc
  ELSE forEach(keys, i + 1, callback(acc, keys[i], options, isStatic), options, isStatic)

wrapFunctions(acc, options, isStatic) ==
  forEach(_actualMethodKeys(Target(acc, isStatic)), 1, acc, options, isStatic)

_wrapStaticMethods(acc, options) == wrapFunctions(acc, options, TRUE)
_wrapInstanceMethods(acc, options) == wrapFunctions(acc, options, FALSE)

Start(k) == [klass |-> k, written |-> {}, seen |-> <<>>, threw |-> ""]

Outcome(acc, conformed) ==
  [klass |-> acc.klass, written |-> acc.written, seen |-> acc.seen,
   threw |-> IF conformed.threw THEN "Error" ELSE acc.threw,
   message |-> conformed.message, options |-> conformed.options]

\* Faulty variant: the passes run before the arguments are validated.
wrapThenValidate(k, methodNames, options) ==
  LET conformed == conformOptions(methodNames, options)
      used == IF conformed.threw
                THEN [NoFields EXCEPT !.wrapper = PromiseCoroutine,
                                      !.asyncWrapper = PromiseMethod,
                                      !.asyncWrapCondition = DefaultCondition]
                ELSE conformed.options
  IN Outcome(_wrapInstanceMethods(_wrapStaticMethods(Start(k), used), used), conformed)

\* Faulty variant: the instance pass runs before the static pass.
wrapInstanceFirst(k, methodNames, options) ==
  LET conformed == conformOptions(methodNames, options)
  IN IF conformed.threw THEN Outcome(Start(k), conformed)
     ELSE Outcome(_wrapStaticMethods(_wrapInstanceMethods(Start(k), conformed.options),
                                     conformed.options), conformed)

wrap(k, methodNames, options) ==
  LET conformed == conformOptions(methodNames, options)
  IN IF conformed.threw THEN Outcome(Start(k), conformed)
     ELSE Outcome(_wrapInstanceMethods(_wrapStaticMethods(Start(k), conformed.options),
                                       conformed.options), conformed)

wrapStaticMethods(k, methodNames, options) ==
  LET conformed == conformOptions(methodNames, options)
  IN IF conformed.threw THEN Outcome(Start(k), conformed)
     ELSE Outcome(_wrapStaticMethods(Start(k), conformed.options), conformed)

wrapInstanceMethods(k, methodNames, options) ==
  LET conformed == conformOptions(methodNames, options)
  IN IF conformed.threw THEN Outcome(Start(k), conformed)
     ELSE Outcome(_wrapInstanceMethods(Start(k), conformed.options), conformed)

----------------------------------------------------------------------------
(* The classes the model wraps: the shape of src/test.js's FakeDataStore,   *)
(* with a plain method outside the naming convention, a remote-prefixed     *)
(* method, a non-function slot and accessors whose names end with Async.    *)

StaticKeys ==
  << <<"length">>, <<"name">>, <<"prototype">>, <<"example", "Sync">>,
     <<"example", "Promise", "Async">>, <<"example", "Async">>, <<"example">>,
     <<"limit", "Async">>, <<"count", "Async">> >>

PrototypeKeys ==
  << <<"constructor">>, <<"keys">>, <<"size">>, <<"get", "Async">>,
     <<"set", "Async">>, <<"custom", "Method">>, <<"remote", "Fetch">>,
     <<"view", "Async">> >>

KeySet(keys) == {keys[i] : i \in 1..Len(keys)}

\* The accessor forms a class can declare: getter only, both, setter only.
AccessorForms ==
  { Accessor("get", "", Plain("returned")),
    Accessor("get", "set", Plain("returned")),
    Accessor("", "set", NotFn("")) }

StaticTarget(countAsync) ==
  [keys |-> StaticKeys,
   desc |-> [key \in KeySet(StaticKeys) |->
     CASE key = <<"example", "Sync">> -> Data(Plain("exampleSync"))
       [] key = <<"example", "Promise", "Async">> -> Data(Plain("examplePromiseAsync"))
       [] key = <<"example", "Async">> -> Data(Generator("exampleAsync"))
       [] key = <<"example">> -> Data(Generator("example"))
       [] key = <<"count", "Async">> -> countAsync
       [] OTHER -> Data(NotFn(key[1]))]]

PrototypeTarget(viewAsync) ==
  [keys |-> PrototypeKeys,
   desc |-> [key \in KeySet(PrototypeKeys) |->
     CASE key = <<"constructor">> -> Data(Plain("constructor"))
       [] key = <<"keys">> -> Data(Plain("keys"))
       [] key = <<"size">> -> Accessor("get", "", NotFn("number"))
       [] key = <<"get", "Async">> -> Data(Plain("getAsync"))
       [] key = <<"set", "Async">> -> Data(Generator("setAsync"))
       [] key = <<"custom", "Method">> -> Data(Plain("customMethod"))
       [] key = <<"remote", "Fetch">> -> Data(Plain("remoteFetch"))
       [] OTHER -> viewAsync]]

Classes ==
  { [static |-> StaticTarget(c), prototype |-> PrototypeTarget(v)] :
      c \in {Accessor("get", "", Plain("returned"))}, v \in AccessorForms }

----------------------------------------------------------------------------
(* The arguments the entry points are called with.                          *)

NameLists ==
  { <<>>,
    << El("string", <<"custom", "Method">>) >>,
    << El("string", <<"view", "Async">>), El("string", <<"example">>), El("number", <<"42">>) >>,
    << El("string", <<"count", "Async">>), El("string", <<"constructor">>),
       El("string", <<"example", "Sync">>) >> }

OptionObjects ==
  { Obj([methodNames |-> m, wrapper |-> w, asyncWrapper |-> a, asyncWrapCondition |-> c]) :
      m \in {Absent, Arr(<< El("string", <<"set", "Async">>), El("string", <<"keys">>) >>),
             Str(<<"get", "Async">>), Num("0")},
      w \in {Absent, Undefined, Null, Bool("false"), Num("7"), Fun("mark")},
      a \in {Absent, Undefined, Null, Str(<<>>), JS("object", <<>>), Fun("mark")},
      c \in {Absent, Null, Num("0"), Bool("true"), Fun("remote"), Fun("staticOnly")} }

MethodNamesArgs ==
  { Arg(Undefined), Arg(Null), Arg(Str(<<"notAnArray">>)), Arg(Num("0")) }
  \cup { Arg(Arr(l)) : l \in NameLists }
  \cup { Obj([NoFields EXCEPT !.asyncWrapCondition = Fun("remote")]),
         Obj([NoFields EXCEPT !.methodNames = Str(<<"keys">>)]) }

OptionsArgs ==
  { Arg(Undefined), Arg(Str(<<"options">>)), Arg(Num("5")), Arg(Arr(<<>>)),
    Arg(JS("date", <<>>)), Arg(Fun("mark")) }
  \cup OptionObjects

NoCall ==
  [entry |-> "", methodNames |-> Arg(Undefined), options |-> Arg(Undefined),
   conformed |-> NoFields, threw |-> "", message |-> ""]

Idle ==
  [state |-> "idle", isStatic |-> FALSE, key |-> <<>>, outcome |-> "", yields |-> 0,
   result |-> "", handle |-> "", value |-> "", awaiting |-> "", yielded |-> 0,
   sideEffect |-> FALSE]

Init ==
  /\ klass \in Classes
  /\ declared = klass
  /\ phase = "defined"
  /\ call = NoCall
  /\ written = {}
  /\ seen = <<>>
  /\ run = Idle

\* The state after an entry point returned or threw.
Called(entry, methodNames, options, out) ==
  /\ klass' = out.klass
  /\ phase' = IF out.threw = "" THEN "wrapped" ELSE "failed"
  /\ call' = [entry |-> entry, methodNames |-> methodNames, options |-> options,
              conformed |-> out.options, threw |-> out.threw, message |-> out.message]
  /\ written' = out.written
  /\ seen' = out.seen
  /\ UNCHANGED <<declared, run>>

Wrap(MN, OP) ==
  /\ phase = "defined"
  /\ \E methodNames \in MN, options \in OP :
      \E out \in {wrap(klass, methodNames, options)} :
        Called("wrap", methodNames, options, out)

WrapStaticMethods(MN, OP) ==
  /\ phase = "defined"
  /\ \E methodNames \in MN, options \in OP :
      \E out \in {wrapStaticMethods(klass, methodNames, options)} :
        Called("wrapStaticMethods", methodNames, options, out)

WrapInstanceMethods(MN, OP) ==
  /\ phase = "defined"
  /\ \E methodNames \in MN, options \in OP :
      \E out \in {wrapInstanceMethods(klass, methodNames, options)} :
        Called("wrapInstanceMethods", methodNames, options, out)

Next ==
  \/ Wrap(MethodNamesArgs, OptionsArgs)
  \/ WrapStaticMethods(MethodNamesArgs, OptionsArgs)
  \/ WrapInstanceMethods(MethodNamesArgs, OptionsArgs)

Spec == Init /\ [][Next]_vars

----------------------------------------------------------------------------
(* Vocabulary of the properties.                                            *)

DeclaredTarget(isStatic) == IF isStatic THEN declared.static ELSE declared.prototype
CurrentTarget(isStatic) == IF isStatic THEN klass.static ELSE klass.prototype

\* The targets the entry point called works on.
Covered(isStatic) ==
  \/ call.entry = "wrap"
  \/ call.entry = "wrapStaticMethods" /\ isStatic
  \/ call.entry = "wrapInstanceMethods" /\ ~isStatic

\* Own non-accessor function-valued properties of the class as declared.
FunctionKeys(isStatic) ==
  {key \in KeySet(DeclaredTarget(isStatic).keys) :
     /\ DeclaredTarget(isStatic).desc[key].kind = "data"
     /\ DeclaredTarget(isStatic).desc[key].val.isFn}

AccessorKeys(isStatic) ==
  {key \in KeySet(DeclaredTarget(isStatic).keys) :
     \/ DeclaredTarget(isStatic).desc[key].get # ""
     \/ DeclaredTarget(isStatic).desc[key].set # ""}

Before(isStatic, key) == DeclaredTarget(isStatic).desc[key].val
After(isStatic, key) == CurrentTarget(isStatic).desc[key].val

Replaced(isStatic, key, f) ==
  /\ <<isStatic, key>> \in written
  /\ f.t = "function"
  /\ After(isStatic, key) = ApplyTransformer(f, Before(isStatic, key))

Kept(isStatic, key) ==
  /\ <<isStatic, key>> \notin written
  /\ After(isStatic, key) = Before(isStatic, key)

Returned == phase = "wrapped"
Failed == phase = "failed"
ListGiven == InstanceOfArray(call.conformed.methodNames)
NoListGiven == ~Truthy(call.conformed.methodNames)
Listed(key) == \E i \in 1..Len(call.conformed.methodNames.a) :
                 call.conformed.methodNames.a[i] = El("string", key)

ConditionTrue(isStatic, key) ==
  /\ call.conformed.asyncWrapCondition.t = "function"
  /\ ApplyCondition(call.conformed.asyncWrapCondition, key, DeclaredTarget(isStatic), isStatic)

\* The transformer configured for a property of this kind.
Configured(isStatic, key) ==
  IF Before(isStatic, key).gen THEN call.conformed.wrapper ELSE call.conformed.asyncWrapper

Targets == {TRUE, FALSE}

----------------------------------------------------------------------------
(* C1 as stated: with no method-name list, after wrap returns every         *)
(* generator-style function property has been replaced by the generator     *)
(* transformer's result, and a plain one by the plain transformer's result  *)
(* exactly when the naming predicate returns true for its name; a plain one *)
(* for which it returns false keeps its identity.                           *)
C1_AsStated ==
  (Returned /\ call.entry = "wrap" /\ NoListGiven) =>
    \A isStatic \in Targets : \A key \in FunctionKeys(isStatic) :
      IF Before(isStatic, key).gen
        THEN Replaced(isStatic, key, call.conformed.wrapper)
        ELSE /\ Replaced(isStatic, key, call.conformed.asyncWrapper)
                  <=> ConditionTrue(isStatic, key)
             /\ ~ConditionTrue(isStatic, key) => Kept(isStatic, key)

(* C1 amended: with no method-name list, a generator-style function         *)
(* property is replaced by the generator transformer's result when that     *)
(* transformer is configured and keeps its identity when it is disabled; a  *)
(* plain one is replaced by the plain transformer's result exactly when the *)
(* plain transformer is configured and the naming predicate returns true    *)
(* for its name or has been disabled, and keeps its identity otherwise.     *)
C1_NoListSelection ==
  (Returned /\ NoListGiven) =>
    \A isStatic \in Targets : Covered(isStatic) =>
      \A key \in FunctionKeys(isStatic) :
        LET selected == \/ Before(isStatic, key).gen
                        \/ ~Truthy(call.conformed.asyncWrapCondition)
                        \/ ConditionTrue(isStatic, key)
        IN IF selected /\ Truthy(Configured(isStatic, key))
             THEN Replaced(isStatic, key, Configured(isStatic, key))
             ELSE Kept(isStatic, key)

C1_Witness ==
  /\ Returned /\ call.entry = "wrap" /\ NoListGiven
  /\ call.conformed.asyncWrapCondition = Fun("remote")
  /\ call.conformed.wrapper = PromiseCoroutine
  /\ Replaced(FALSE, <<"remote", "Fetch">>, call.conformed.asyncWrapper)
  /\ Kept(FALSE, <<"get", "Async">>)
  /\ Replaced(TRUE, <<"example">>, PromiseCoroutine)

(* C2 as stated: with a method-name list, after wrap returns a function     *)
(* property has been replaced if and only if its name is in the list.       *)
C2_AsStated ==
  (Returned /\ call.entry = "wrap" /\ ListGiven) =>
    \A isStatic \in Targets : \A key \in FunctionKeys(isStatic) :
      /\ (<<isStatic, key>> \in written) <=> Listed(key)
      /\ ~Listed(key) => Kept(isStatic, key)

(* C2 amended: with a method-name list (the empty list included), a         *)
(* function property has been replaced if and only if its name is in the    *)
(* list and the transformer for its kind is configured; every other one     *)
(* keeps its identity, and the naming predicate is not consulted.           *)
C2_ListSelection ==
  (Returned /\ ListGiven) =>
    /\ \A isStatic \in Targets : Covered(isStatic) =>
         \A key \in FunctionKeys(isStatic) :
           IF Listed(key) /\ Truthy(Configured(isStatic, key))
             THEN Replaced(isStatic, key, Configured(isStatic, key))
             ELSE Kept(isStatic, key)
    /\ \A i \in 1..Len(seen) : seen[i].cb # "asyncWrapCondition"

C2_Witness ==
  /\ Returned /\ call.entry = "wrap"
  /\ call.methodNames = Arg(Arr(<< El("string", <<"custom", "Method">>) >>))
  /\ Replaced(FALSE, <<"custom", "Method">>, PromiseMethod)
  /\ Kept(FALSE, <<"get", "Async">>)
  /\ Kept(FALSE, <<"set", "Async">>)
  /\ Kept(TRUE, <<"example">>)

(* C3: whatever the class, the options and the method-name list, no entry   *)
(* point assigns or redefines an own property that has a getter or a        *)
(* setter: its descriptor is the one declared and it is never written.      *)
C3_AccessorsUntouched ==
  \A isStatic \in Targets : \A key \in AccessorKeys(isStatic) :
    /\ CurrentTarget(isStatic).desc[key] = DeclaredTarget(isStatic).desc[key]
    /\ <<isStatic, key>> \notin written

C3_Witness ==
  /\ Returned /\ call.entry = "wrap" /\ ListGiven
  /\ Listed(<<"view", "Async">>)
  /\ declared.prototype.desc[<<"view", "Async">>] = Accessor("get", "set", Plain("returned"))
  /\ Replaced(TRUE, <<"example">>, call.conformed.wrapper)

(* C4: a call that fails argument validation has written no property:      *)
(* the class is as declared and no callback has run.                        *)
C4_FailedCallWritesNothing ==
  Failed => /\ klass = declared
            /\ written = {}
            /\ seen = <<>>

C4_Witness ==
  /\ Failed
  /\ call.entry = "wrap"
  /\ call.methodNames = Arg(Str(<<"notAnArray">>))
  /\ call.options = Arg(Undefined)
  /\ call.message = "Optional options should be an object if provided"

----------------------------------------------------------------------------
(* The method-name argument as the caller supplied it.                      *)

StringList(v) == v.t = "array" /\ \A i \in 1..Len(v.a) : v.a[i].t = "string"
Supplied(v) == v.t \notin {"absent", "undefined", "null"}
TruthyNonArray(v) == Truthy(v) /\ v.t # "array"

\* Given positionally, together with an options argument.
Positional == call.entry # "" /\ Truthy(call.options)
\* Given as options.methodNames, and not overridden positionally.
AsOption == call.entry # "" /\ call.options.t = "object" /\ ~Truthy(call.methodNames)

(* C5 as stated: a supplied method-name argument that is not a list of      *)
(* strings makes the call fail.                                             *)
C5_AsStated ==
  /\ (Positional /\ Supplied(call.methodNames) /\ ~StringList(call.methodNames)) => Failed
  /\ (AsOption /\ Supplied(call.options.f.methodNames)
               /\ ~StringList(call.options.f.methodNames)) => Failed

(* C5 amended: a supplied method-name argument that is truthy and not an    *)
(* array makes the call fail; an array is accepted whatever its elements,   *)
(* and a falsy value is taken as not supplied.                              *)
C5_NonArrayMethodNamesFail ==
  /\ (Positional /\ TruthyNonArray(call.methodNames)) => Failed
  /\ (AsOption /\ TruthyNonArray(call.options.f.methodNames)) =>
       (Failed /\ call.message = "Optional methodNames should be an array if provided")
  /\ (Positional /\ call.options.t = "object" /\ InstanceOfArray(call.methodNames)) =>
       call.message # "Optional methodNames should be an array if provided"
  /\ (AsOption /\ ~Truthy(call.options.f.methodNames)) =>
       call.message # "Optional methodNames should be an array if provided"

C5_Witness ==
  /\ Failed
  /\ call.methodNames = Arg(Str(<<"notAnArray">>))
  /\ call.options.t = "object"
  /\ call.message = "Optional methodNames should be an array if provided"

(* C6 as stated: an options field wrapper, asyncWrapper or                  *)
(* asyncWrapCondition holding a value that is neither null/absent nor a     *)
(* callable makes the call fail.                                            *)
C6_AsStated ==
  (call.entry # "" /\ call.options.t = "object") =>
    \A name \in {"wrapper", "asyncWrapper", "asyncWrapCondition"} :
      call.options.f[name].t \notin {"absent", "undefined", "null", "function"} => Failed

FieldMessage(name) ==
  CASE name = "wrapper" -> "Optional wrapper should be a function if provided"
    [] name = "asyncWrapper" -> "Optional asyncWrapper should be a function if provided"
    [] OTHER -> "Optional asyncWrapCondition should be a function if provided"

(* C6 amended: an options field wrapper, asyncWrapper or asyncWrapCondition *)
(* holding a truthy value that is not a callable makes the call fail; a     *)
(* falsy value (null, false, 0, the empty string) is accepted, and is never *)
(* the reason the call fails.                                               *)
C6_TruthyNonCallableFails ==
  (call.entry # "" /\ call.options.t = "object") =>
    \A name \in {"wrapper", "asyncWrapper", "asyncWrapCondition"} :
      LET value == call.options.f[name]
      IN /\ (Truthy(value) /\ value.t # "function") => Failed
         /\ ~Truthy(value) => call.message # FieldMessage(name)
         /\ call.message = FieldMessage(name) => (Truthy(value) /\ value.t # "function")

C6_Witness ==
  /\ Failed
  /\ call.options.t = "object"
  /\ call.options.f.wrapper = Fun("mark")
  /\ call.options.f.asyncWrapper = JS("object", <<>>)
  /\ call.message = FieldMessage("asyncWrapper")

----------------------------------------------------------------------------
(* C9 as stated: options.wrapper set to undefined or null leaves every      *)
(* generator-style candidate as declared; options.asyncWrapper set to       *)
(* undefined or null leaves every plain candidate as declared.              *)
C9_AsStated ==
  (Returned /\ call.options.t = "object") =>
    \A isStatic \in Targets : \A key \in FunctionKeys(isStatic) :
      /\ (Before(isStatic, key).gen /\ call.options.f.wrapper.t \in {"undefined", "null"})
           => Kept(isStatic, key)
      /\ (~Before(isStatic, key).gen /\ call.options.f.asyncWrapper.t \in {"undefined", "null"})
           => Kept(isStatic, key)

(* C9 amended: options.wrapper set to null (or another falsy value other    *)
(* than undefined) leaves every generator-style candidate as declared, and  *)
(* options.asyncWrapper set so leaves every plain candidate as declared; a  *)
(* field left undefined gets the default transformer instead. Disabling     *)
(* one transformer leaves the other's candidates replaced as selected.      *)
C9_NullDisables ==
  (Returned /\ call.options.t = "object") =>
    /\ call.options.f.wrapper.t \in {"absent", "undefined"}
         => call.conformed.wrapper = PromiseCoroutine
    /\ call.options.f.asyncWrapper.t \in {"absent", "undefined"}
         => call.conformed.asyncWrapper = PromiseMethod
    /\ \A isStatic \in Targets : Covered(isStatic) =>
         \A key \in FunctionKeys(isStatic) :
           LET gen == Before(isStatic, key).gen
               disabled(value) == value.t \notin {"absent", "undefined"} /\ ~Truthy(value)
               selected == IF ListGiven THEN Listed(key)
                           ELSE \/ gen
                                \/ ~Truthy(call.conformed.asyncWrapCondition)
                                \/ ConditionTrue(isStatic, key)
           IN /\ (gen /\ disabled(call.options.f.wrapper)) => Kept(isStatic, key)
              /\ (~gen /\ disabled(call.options.f.asyncWrapper)) => Kept(isStatic, key)
              /\ (gen /\ selected /\ ~disabled(call.options.f.wrapper))
                   => Replaced(isStatic, key, call.conformed.wrapper)
              /\ (~gen /\ selected /\ ~disabled(call.options.f.asyncWrapper))
                   => Replaced(isStatic, key, call.conformed.asyncWrapper)

C9_Witness ==
  /\ Returned /\ call.entry = "wrap" /\ NoListGiven
  /\ call.options.t = "object"
  /\ call.options.f.wrapper = Null
  /\ call.options.f.asyncWrapper = Undefined
  /\ call.conformed.asyncWrapper = PromiseMethod
  /\ Kept(TRUE, <<"example">>)
  /\ Kept(FALSE, <<"set", "Async">>)
  /\ Replaced(FALSE, <<"get", "Async">>, PromiseMethod)

----------------------------------------------------------------------------
(* The order in which one call visits the properties: the static target     *)
(* first, then the prototype, each in getOwnPropertyNames order.            *)

Position(keys, key) == CHOOSE i \in 1..Len(keys) : keys[i] = key

Precedes(p, q) ==
  \/ p[1] /\ ~q[1]
  \/ /\ p[1] = q[1]
     /\ Position(DeclaredTarget(p[1]).keys, p[2]) < Position(DeclaredTarget(q[1]).keys, q[2])

CallerSupplied(fn) == fn \notin {"Promise.coroutine", "Promise.method", "asyncWrapCondition"}

(* C10 as stated: no caller-supplied callback ever sees the class partly    *)
(* wrapped, with some selected candidates replaced and others not yet.      *)
C10_AsStated ==
  Returned =>
    \A i \in 1..Len(seen) :
      CallerSupplied(seen[i].fn) => seen[i].replaced \in {{}, written}

(* C10 amended: the only code that runs between the first and the last      *)
(* replacement of a call is the wrap pass and the callbacks it invokes;     *)
(* each callback runs with exactly the replacements of the properties       *)
(* visited before its own already made, so a caller-supplied callback can   *)
(* see the class partly wrapped; with the three defaults no caller code     *)
(* runs during the pass.                                                    *)
C10_CallbacksSeePrefix ==
  Returned =>
    /\ \A i \in 1..Len(seen) :
         seen[i].replaced =
           {w \in written : Precedes(w, <<seen[i].isStatic, seen[i].key>>)}
    /\ (/\ call.conformed.wrapper = PromiseCoroutine
        /\ call.conformed.asyncWrapper = PromiseMethod
        /\ call.conformed.asyncWrapCondition = DefaultCondition)
         => \A i \in 1..Len(seen) : ~CallerSupplied(seen[i].fn)

C10_Witness ==
  /\ Returned /\ call.entry = "wrap"
  /\ \E i \in 1..Len(seen) :
       /\ CallerSupplied(seen[i].fn)
       /\ seen[i].replaced # {}
       /\ seen[i].replaced # written

----------------------------------------------------------------------------
(* Invoking the methods of the wrapped class. The deferred-value primitive  *)
(* and the two default transformers are the external collaborator           *)
(* (bluebird's Promise.method and Promise.coroutine): their behaviour is    *)
(* taken from the specification's description of them.                      *)

MaxYields == 2

\* A plain function called directly: its body runs to its end.
CallPlain(outcome) ==
  [Idle EXCEPT !.state = "done", !.outcome = outcome, !.sideEffect = TRUE,
               !.result = IF outcome = "return" THEN "value" ELSE "thrown",
               !.value = IF outcome = "return" THEN "literal" ELSE "error"]

\* A GeneratorFunction called directly: a generator object, the body not started.
CallGenerator(outcome, yields) ==
  [Idle EXCEPT !.state = "done", !.outcome = outcome, !.yields = yields,
               !.result = "generator", !.value = "generator"]

\* The end of a driven generator body: the handle settles.
Settled(r) ==
  [r EXCEPT !.state = "done", !.awaiting = "",
            !.handle = IF r.outcome = "return" THEN "resolved" ELSE "rejected",
            !.value = IF r.outcome = "return" THEN "literal" ELSE "error"]

\* The function Promise.method(fn) returns, called.
CallMethod(inner) ==
  [inner EXCEPT !.result = "handle",
                !.handle = IF inner.result = "thrown" THEN "rejected" ELSE "resolved"]

\* The function Promise.coroutine(fn) returns, called: the body runs to its
\* first yield, or to its end.
CallCoroutine(v, outcome, yields) ==
  IF v.gen
    THEN LET started == [Idle EXCEPT !.state = "suspended", !.outcome = outcome,
                                     !.yields = yields, !.sideEffect = TRUE,
                                     !.result = "handle", !.handle = "pending"]
         IN IF yields = 0 THEN Settled(started)
            ELSE [started EXCEPT !.yielded = 1, !.awaiting = "pending"]
    ELSE IF outcome = "throw" THEN CallPlain(outcome)
    ELSE [CallPlain(outcome) EXCEPT !.result = "handle", !.handle = "rejected",
                                    !.value = "TypeError"]

\* Calling the function a property holds, with the body the caller's
\* arguments select.
Invocation(declaredAs, v, outcome, yields) ==
  CASE v.layers = <<>> /\ declaredAs.gen -> CallGenerator(outcome, yields)
    [] v.layers = <<>> /\ ~declaredAs.gen -> CallPlain(outcome)
    [] v.layers = <<"method">> /\ declaredAs.gen -> CallMethod(CallGenerator(outcome, yields))
    [] v.layers = <<"method">> /\ ~declaredAs.gen -> CallMethod(CallPlain(outcome))
    [] OTHER -> CallCoroutine(declaredAs, outcome, yields)

Invoke ==
  /\ phase = "wrapped"
  /\ run.state = "idle"
  /\ \E isStatic \in Targets, outcome \in {"return", "throw"}, yields \in 0..MaxYields :
       \E key \in FunctionKeys(isStatic) :
         /\ After(isStatic, key).layers \in {<<>>, <<"method">>, <<"coroutine">>}
         /\ Before(isStatic, key).gen \/ yields = 0
         /\ run' = [Invocation(Before(isStatic, key), After(isStatic, key), outcome, yields)
                      EXCEPT !.isStatic = isStatic, !.key = key]
  /\ UNCHANGED <<klass, declared, phase, call, written, seen>>

\* The deferred value the body is suspended on settles.
Settle ==
  /\ run.state = "suspended"
  /\ run.awaiting = "pending"
  /\ \E how \in {"fulfilled", "rejected"} : run' = [run EXCEPT !.awaiting = how]
  /\ UNCHANGED <<klass, declared, phase, call, written, seen>>

\* The driver resumes the body with the settled value: the body yields
\* again, ends, or raises the rejection thrown into it.
Resume ==
  /\ run.state = "suspended"
  /\ run.awaiting \in {"fulfilled", "rejected"}
  /\ run' = IF run.awaiting = "rejected"
              THEN [run EXCEPT !.state = "done", !.handle = "rejected", !.value = "reason"]
            ELSE IF run.yielded < run.yields
              THEN [run EXCEPT !.yielded = @ + 1, !.awaiting = "pending"]
            ELSE Settled([run EXCEPT !.awaiting = "fulfilled"])
  /\ UNCHANGED <<klass, declared, phase, call, written, seen>>

\* The caller is done with the result.
Finish ==
  /\ run.state = "done"
  /\ run' = Idle
  /\ UNCHANGED <<klass, declared, phase, call, written, seen>>

CallMethodNames ==
  { Arg(Undefined),
    Arg(Arr(<< El("string", <<"custom", "Method">>), El("string", <<"example">>) >>)) }

CallOptions ==
  { Arg(Undefined),
    Obj([NoFields EXCEPT !.wrapper = Null]),
    Obj([NoFields EXCEPT !.asyncWrapper = Null]),
    Obj([NoFields EXCEPT !.asyncWrapCondition = Fun("remote")]) }

CallNext ==
  \/ Wrap(CallMethodNames, CallOptions)
  \/ WrapStaticMethods(CallMethodNames, CallOptions)
  \/ WrapInstanceMethods(CallMethodNames, CallOptions)
  \/ Invoke
  \/ Settle
  \/ Resume
  \/ Finish

CallSpec == Init /\ [][CallNext]_vars

\* The driver's continuation is a callback of the settled deferred value:
\* the event loop runs it.
FairCallSpec == CallSpec /\ WF_vars(Resume)

(* C7: a plain method wrapped with the default plain transformer, invoked,  *)
(* hands its caller a deferred-value handle and never throws: the handle    *)
(* is resolved with the value the body returns, or rejected with the error  *)
(* the body throws.                                                         *)
C7_WrappedPlainReturnsHandle ==
  (/\ run.state # "idle"
   /\ ~Before(run.isStatic, run.key).gen
   /\ <<run.isStatic, run.key>> \in written
   /\ call.conformed.asyncWrapper = PromiseMethod) =>
    /\ run.result = "handle"
    /\ run.outcome = "return" => (run.handle = "resolved" /\ run.value = "literal")
    /\ run.outcome = "throw" => (run.handle = "rejected" /\ run.value = "error")

C7_Witness ==
  /\ run.state = "done"
  /\ run.isStatic /\ run.key = <<"example", "Promise", "Async">>
  /\ <<run.isStatic, run.key>> \in written
  /\ call.conformed.asyncWrapper = PromiseMethod
  /\ run.outcome = "throw"
  /\ run.result = "handle" /\ run.handle = "rejected" /\ run.value = "error"

\* A generator-style method wrapped with the default generator transformer
\* has been invoked.
DrivenGenerator ==
  /\ run.state # "idle"
  /\ Before(run.isStatic, run.key).gen
  /\ <<run.isStatic, run.key>> \in written
  /\ call.conformed.wrapper = PromiseCoroutine

(* C8: a generator-style method wrapped with the default generator          *)
(* transformer, invoked, hands its caller a handle that is pending while a  *)
(* yielded deferred value is unsettled; once the yielded values have        *)
(* settled the handle is eventually resolved with the body's return value,  *)
(* or rejected with the error the body raises; the body's effects before    *)
(* its first yield have happened by then.                                   *)
C8_DrivenGeneratorSettles ==
  /\ [](DrivenGenerator =>
          /\ run.result = "handle"
          /\ run.sideEffect
          /\ run.awaiting = "pending" => run.handle = "pending"
          /\ run.handle = "resolved" =>
               (run.value = "literal" /\ run.outcome = "return" /\ run.yielded = run.yields)
          /\ run.handle = "rejected" => run.value \in {"error", "reason"})
  /\ (DrivenGenerator /\ run.awaiting = "fulfilled" /\ run.yielded = run.yields
        /\ run.outcome = "return")
       ~> (DrivenGenerator /\ run.handle = "resolved" /\ run.value = "literal")
  /\ (DrivenGenerator /\ run.awaiting = "fulfilled" /\ run.yielded = run.yields
        /\ run.outcome = "throw")
       ~> (DrivenGenerator /\ run.handle = "rejected" /\ run.value = "error")
  /\ (DrivenGenerator /\ run.awaiting = "rejected")
       ~> (DrivenGenerator /\ run.handle = "rejected" /\ run.value = "reason")
  /\ (DrivenGenerator /\ run.awaiting = "fulfilled" /\ run.yielded < run.yields)
       ~> (DrivenGenerator /\ run.awaiting = "pending" /\ run.handle = "pending")

C8_Witness ==
  /\ DrivenGenerator
  /\ ~run.isStatic /\ run.key = <<"set", "Async">>
  /\ run.yields = 1 /\ run.yielded = 1
  /\ run.handle = "resolved" /\ run.value = "literal" /\ run.sideEffect

====
